---- MODULE Spec2Model ----
(***************************************************************************)
(* Integration sequence execution engine of the lender integration         *)
(* backend: the sequence administration endpoints of                       *)
(* app/api/v1/endpoints/lenders.py and IntegrationRunner of                *)
(* app/services/integration_runner.py.                                     *)
(*                                                                         *)
(* Strings that the code parses (paths) are sequences of one-character     *)
(* strings.  JSON values are tagged records: Null, Str(s), Obj(m) with m a *)
(* function from keys to JSON values.  Python dicts with a fixed shape are *)
(* records.                                                                *)
(*                                                                         *)
(* The runs are restricted to steps with auth_type none, method POST, no   *)
(* request_schema, and lenders without field mappings, so that a request   *)
(* body is exactly what depends_on_fields puts into it; field mappings and *)
(* the template merge are covered by SpecBody.                             *)
(*                                                                         *)
(* Specifications:                                                         *)
(*   Spec          the sequence endpoints and IntegrationRunner.run, with  *)
(*                 a database that accepts every commit                    *)
(*   SpecDb        sequences created and run, commits may raise            *)
(*   SpecRuntime   deployments and RuntimeExecutor of                      *)
(*                 app/services/runtime_executor.py                        *)
(*   SpecRuntimeDb the same, metrics updates may raise                     *)
(*   SpecPath      _set_to_path followed by _get_from_path                 *)
(*   SpecBody      the request body of _execute_step: dependencies, field  *)
(*                 mappings, template merge                                *)
(*   SpecConditional  SequenceService._execute_conditional of              *)
(*                 app/services/sequence_service.py                        *)
(*   SpecExternal  external_lead_submission of                             *)
(*                 app/api/v1/endpoints/external.py with its idempotency   *)
(*                 cache                                                   *)
(***************************************************************************)
EXTENDS Bags, FiniteSets, Integers, Sequences, TLC

\* ------------------------------------------------------------------ bounds
MaxSeqs == 2
MaxSteps == 2
MaxRetry == 2
MaxRuns == 2
MaxSaves == 2
MaxDeployed == 2
MaxExecs == 2
MaxPathLen == 3
MaxMappings == 2
MaxRequests == 3
MaxClock == 3
\* settings.IDEMPOTENCY_TTL_SECONDS, in ticks of the clock
IdempotencyTtl == 2

\* ------------------------------------------------------------- JSON values
Null == [t |-> "null"]
Str(s) == [t |-> "str", v |-> s]
Num(n) == [t |-> "num", v |-> n]
Obj(m) == [t |-> "obj", m |-> m]
EmptyMap == [k \in {} |-> Null]
Put(m, k, v) == (k :> v) @@ m

PathA == <<"a">>
PathRef == <<"r", "e", "f">>
PathRaw == <<"r", "a", "w">>

\* ------------------------------------------------------------ path accessor
RECURSIVE SplitDots(_, _)
\* p.split('.') with the empty segments dropped; cur is the segment being read
SplitDots(p, cur) ==
    IF p = <<>> THEN (IF cur = <<>> THEN <<>> ELSE <<cur>>)
    ELSE IF Head(p) = "."
         THEN (IF cur = <<>> THEN <<>> ELSE <<cur>>) \o SplitDots(Tail(p), <<>>)
         ELSE SplitDots(Tail(p), Append(cur, Head(p)))

StripRoot(p) ==
    IF Len(p) >= 2 /\ p[1] = "$" /\ p[2] = "." THEN SubSeq(p, 3, Len(p)) ELSE p

PathParts(path) == SplitDots(StripRoot(path), <<>>)

RECURSIVE WalkPath(_, _)
WalkPath(cur, parts) ==
    IF parts = <<>> THEN cur
    ELSE IF cur.t = "obj" /\ Head(parts) \in DOMAIN cur.m
         THEN WalkPath(cur.m[Head(parts)], Tail(parts))
         ELSE Null

\* _get_from_path(data, path)
GetFromPath(data, path) ==
    IF path = <<>> THEN Null ELSE WalkPath(data, PathParts(path))

RECURSIVE SetAt(_, _, _)
SetAt(m, parts, value) ==
    IF Len(parts) = 1 THEN Put(m, parts[1], value)
    ELSE LET seg == Head(parts)
             child == IF seg \in DOMAIN m /\ m[seg].t = "obj" THEN m[seg].m ELSE EmptyMap
         IN Put(m, seg, Obj(SetAt(child, Tail(parts), value)))

\* _set_to_path(data, path, value); data is mutated in place by the code and
\* returned here
SetToPath(data, path, value) ==
    IF path = <<>> \/ PathParts(path) = <<>> THEN data
    ELSE Obj(SetAt(data.m, PathParts(path), value))


\* ------------------------------------------------------------ input domains
Modes == {"sequential", "parallel", "conditional"}
LenderIds == {1}
\* lender ids a caller may pass to run(); 2 is never created
RunLenderIds == {1, 2}
NoStatus == 0
NoId == 0

\* a step as it appears in a save payload
StepKindA == [depends_on_fields |-> <<>>, output_fields |-> <<PathA>>, retry_count |-> 0]
StepKindB == [depends_on_fields |-> << <<PathRef, PathA>> >>, output_fields |-> <<PathA>>,
              retry_count |-> MaxRetry]
StepLists ==
    {<<>>} \cup {[i \in 1..n |-> IF i = 1 THEN StepKindA ELSE StepKindB] : n \in 1..MaxSteps}

DigitChars == <<"0", "1", "2", "3", "4", "5", "6", "7", "8", "9">>
RECURSIVE StrInt(_)
\* str(n) for n >= 0
StrInt(n) ==
    IF n < 10 THEN <<DigitChars[n + 1]>>
    ELSE StrInt(n \div 10) \o <<DigitChars[(n % 10) + 1]>>

\* condition_config: str(step.id) -> field -> condition
NoCond == EmptyMap
\* every step runs only when field "a" exists in the accumulated data
ExistsACond ==
    [k \in {StrInt(id) : id \in 1..(MaxSeqs * MaxSteps)} |->
        (PathA :> [type |-> "exists", value |-> Null])]

ValidPayloads ==
    {p \in [execution_mode : Modes, stop_on_error : BOOLEAN,
            steps : StepLists \ {<<>>}, condition_config : {NoCond, ExistsACond}] :
        (p.condition_config = ExistsACond) <=> (p.execution_mode = "conditional")}
\* payloads the checks of the save endpoints refuse
InvalidPayloads ==
    {[execution_mode |-> "batch", stop_on_error |-> TRUE, steps |-> <<StepKindA>>,
      condition_config |-> NoCond],
     [execution_mode |-> "parallel", stop_on_error |-> TRUE, steps |-> <<>>,
      condition_config |-> NoCond]}
SequencePayloads == ValidPayloads \cup InvalidPayloads

\* what the stubbed third-party endpoint may answer to one attempt
V1 == Str("V1")
V2 == Str("V2")
Responses ==
    {[status_code |-> 200, is_json |-> TRUE, body |-> Obj(PathA :> V1)],
     [status_code |-> 200, is_json |-> TRUE, body |-> Obj(PathA :> V2)],
     [status_code |-> 500, is_json |-> TRUE, body |-> Obj(PathA :> V1)],
     [status_code |-> 200, is_json |-> FALSE, body |-> Str("oops")]}
NetworkError == [exc |-> "ConnectError"]
Outcomes == Responses \cup {NetworkError}

\* -------------------------------------------------------------------- state
VARIABLES
    lenders,        \* ids of the rows of table lenders
    sequences,      \* table integration_sequences: id -> row
    integrations,   \* table integrations: id -> row
    logs,           \* table integration_logs: bag of committed rows
    session,        \* rows added to the run's AsyncSession and not yet committed
    nextSeqId,      \* next value of integration_sequences.id
    nextStepId,     \* next value of integrations.id
    saves,          \* number of save and delete requests handled so far
    runCount,       \* number of calls of IntegrationRunner.run so far
    run,            \* the call of IntegrationRunner.run in progress
    response,       \* what the most recent finished request returned (or raised)
    deployed_apis,          \* table deployed_apis: id -> row
    deployed_integrations,  \* table deployed_integrations: id -> row
    execs,          \* the calls of RuntimeExecutor, in progress and finished
    call,           \* a call of a pure function: its arguments and its result
    idempotency_cache,  \* _IDEMPOTENCY_CACHE of external.py: key -> expiry time
    clock,          \* time.time()
    requests        \* the external lead submissions, in order of arrival

vars == <<lenders, sequences, integrations, logs, session, nextSeqId, nextStepId,
          saves, runCount, run, response,
          deployed_apis, deployed_integrations, execs, call,
          idempotency_cache, clock, requests>>

\* the state of the external endpoint
external == <<idempotency_cache, clock, requests>>

\* the state of the deployments, of RuntimeExecutor and of the external
\* endpoint, which the sequence endpoints and IntegrationRunner leave alone
runtime == <<deployed_apis, deployed_integrations, execs, call, external>>

config == <<lenders, sequences, integrations, nextSeqId, nextStepId>>

NoResponse == [op |-> "none"]
NoCall == [fn |-> "none"]
IdleRun == [active |-> FALSE]

Init ==
    /\ lenders = {}
    /\ sequences = EmptyMap
    /\ integrations = EmptyMap
    /\ logs = EmptyBag
    /\ session = EmptyBag
    /\ nextSeqId = 1
    /\ nextStepId = 1
    /\ saves = 0
    /\ runCount = 0
    /\ run = IdleRun
    /\ response = NoResponse
    /\ deployed_apis = EmptyMap
    /\ deployed_integrations = EmptyMap
    /\ execs = <<>>
    /\ call = NoCall
    /\ idempotency_cache = EmptyMap
    /\ clock = 0
    /\ requests = <<>>

\* ------------------------------------------------------------------ helpers
\* f restricted to the keys in S
Restrict(f, S) == [k \in S |-> f[k]]

\* ids of the rows of integrations with parent_sequence_id = sid
StepIdsOf(sid) == {id \in DOMAIN integrations : integrations[id].parent_sequence_id = sid}

HasDeps(steps) == \E i \in 1..Len(steps) : steps[i].depends_on_fields # <<>>

\* ------------------------------------------------------------ administration
\* create_lender
CreateLender ==
    /\ ~run.active
    /\ \E l \in LenderIds \ lenders : lenders' = lenders \cup {l}
    /\ response' = [op |-> "create_lender", status |-> 201]
    /\ UNCHANGED <<sequences, integrations, logs, session, nextSeqId, nextStepId,
                   saves, runCount, run>>

\* the Integration row create_integration_sequence builds for steps[index]
NewIntegration(lender_id, sid, step, index) ==
    [lender_id |-> lender_id,
     parent_sequence_id |-> sid,
     sequence_order |-> index,
     depends_on_fields |-> step.depends_on_fields,
     output_fields |-> step.output_fields,
     retry_count |-> step.retry_count,
     status |-> "active"]

\* the IntegrationSequence row built from a payload
NewSequence(lender_id, p) ==
    [lender_id |-> lender_id,
     execution_mode |-> p.execution_mode,
     condition_config |-> p.condition_config,
     stop_on_error |-> p.stop_on_error,
     is_active |-> TRUE]

\* the checks shared by the three save endpoints; 0 when the payload passes
PayloadError(p) ==
    IF Len(p.steps) = 0 THEN 400
    ELSE IF p.execution_mode \notin Modes THEN 400
    ELSE 0

SaveResponse(op, status, p) ==
    [op |-> op, status |-> status,
     parallel_deps |-> (p.execution_mode = "parallel" /\ HasDeps(p.steps))]

\* the answer of update_integration_sequence and of the deprecated save
\* endpoint to a request that went through: data.sequence_id, and as a
\* history field the number of steps the request's payload listed
SavedResponse(op, sid, p) ==
    [sequence_id |-> sid, steps_sent |-> Len(p.steps)] @@ SaveResponse(op, 200, p)

\* create_integration_sequence
CreateSequence(lender_id, p) ==
    /\ ~run.active
    /\ saves < MaxSaves
    /\ saves' = saves + 1
    /\ IF PayloadError(p) # 0
       THEN /\ response' = SaveResponse("create", PayloadError(p), p)
            /\ UNCHANGED config
       ELSE IF lender_id \notin lenders
       THEN \* the INSERT violates the foreign key on lender_id: rollback, 500
            /\ response' = SaveResponse("create", 500, p)
            /\ UNCHANGED config
       ELSE /\ nextSeqId <= MaxSeqs
            /\ LET sid == nextSeqId
                   n == Len(p.steps)
               IN /\ sequences' = Put(sequences, sid, NewSequence(lender_id, p))
                  /\ integrations' =
                        [k \in nextStepId..(nextStepId + n - 1) |->
                            NewIntegration(lender_id, sid, p.steps[k - nextStepId + 1],
                                           k - nextStepId + 1)]
                        @@ integrations
                  /\ nextSeqId' = sid + 1
                  /\ nextStepId' = nextStepId + n
            /\ response' = SaveResponse("create", 200, p)
            /\ UNCHANGED lenders
    /\ UNCHANGED <<logs, session, runCount, run>>

\* the orders in which ORDER BY sequence_order ASC may return the steps of a
\* sequence (rows with equal sequence_order come in any order)
OrderedSteps(sid) ==
    LET ids == StepIdsOf(sid)
    IN {s \in [1..Cardinality(ids) -> ids] :
          /\ \A i, j \in DOMAIN s : i # j => s[i] # s[j]
          /\ \A i, j \in DOMAIN s :
                i < j => integrations[s[i]].sequence_order <= integrations[s[j]].sequence_order}

\* step.get("id") of the payload's steps[index]: a client that sends ids sends
\* those of the steps it was shown, in their order; NoId when the step has none
PayloadStepId(shown, with_ids, index) ==
    IF with_ids /\ index <= Len(shown) THEN shown[index] ELSE NoId

\* the "update existing step" branch of the upsert loop
UpdatedIntegration(row, step, index) ==
    [row EXCEPT !.sequence_order = index,
                !.depends_on_fields = step.depends_on_fields,
                !.output_fields = step.output_fields,
                !.retry_count = step.retry_count]

\* the upsert loop of update_integration_sequence and of the deprecated save
\* endpoint over the rows of sequence sid.  A payload step whose id matches no
\* row takes the "create new step" branch, where Integration(is_active=...)
\* raises TypeError (the model has no such column).
UpsertRaises(sid, p, shown, with_ids) ==
    \E k \in 1..Len(p.steps) : PayloadStepId(shown, with_ids, k) \notin StepIdsOf(sid)

\* table integrations after the upsert loop when no step raised.  Setting
\* is_active on a loaded row sets a plain attribute and writes nothing, so the
\* rows the payload omits stay as they are.
UpsertSteps(sid, p, shown, with_ids) ==
    LET n == Len(p.steps)
    IN      [id \in DOMAIN integrations |->
                IF \E k \in 1..n : PayloadStepId(shown, with_ids, k) = id
                THEN LET k == CHOOSE k \in 1..n :
                                /\ PayloadStepId(shown, with_ids, k) = id
                                /\ \A m \in (k + 1)..n : PayloadStepId(shown, with_ids, m) # id
                     IN UpdatedIntegration(integrations[id], p.steps[k], k)
                ELSE integrations[id]]

\* update_integration_sequence; activate is the payload's is_active
\* ("keep" when the payload has none)
UpdateSequence(lender_id, sequence_id, p, activate, with_ids) ==
    /\ ~run.active
    /\ saves < MaxSaves
    /\ saves' = saves + 1
    /\ IF ~(sequence_id \in DOMAIN sequences /\ sequences[sequence_id].lender_id = lender_id)
       THEN /\ response' = SaveResponse("update", 404, p)
            /\ UNCHANGED config
       ELSE IF PayloadError(p) # 0
       THEN /\ response' = SaveResponse("update", PayloadError(p), p)
            /\ UNCHANGED config
       ELSE \E shown \in OrderedSteps(sequence_id) :
            LET upserted == UpsertSteps(sequence_id, p, shown, with_ids)
            IN IF UpsertRaises(sequence_id, p, shown, with_ids)
               THEN \* except Exception: rollback, 500
                    /\ response' = SaveResponse("update", 500, p)
                    /\ UNCHANGED config
               ELSE /\ sequences' = [sequences EXCEPT ![sequence_id] =
                          [@ EXCEPT !.execution_mode = p.execution_mode,
                                    !.condition_config = p.condition_config,
                                    !.stop_on_error = p.stop_on_error,
                                    !.is_active = IF activate = "keep" THEN @
                                                  ELSE activate = "on"]]
                    /\ integrations' = upserted
                    /\ response' = SavedResponse("update", sequence_id, p)
                    /\ UNCHANGED <<lenders, nextSeqId, nextStepId>>
    /\ UNCHANGED <<logs, session, runCount, run>>

\* save_integration_sequence_deprecated.  Every failure, the HTTPException of
\* the payload checks included, is caught by `except Exception` and answered
\* with 500 after a rollback.
SaveSequenceDeprecated(lender_id, p, with_ids) ==
    /\ ~run.active
    /\ saves < MaxSaves
    /\ saves' = saves + 1
    /\ LET mine == {sid \in DOMAIN sequences : sequences[sid].lender_id = lender_id}
       IN IF PayloadError(p) # 0
          THEN /\ response' = SaveResponse("save", 500, p)
               /\ UNCHANGED config
          ELSE IF Cardinality(mine) # 1
          THEN \* several rows: scalar_one_or_none() raises.  No row: the new
               \* sequence has no steps yet, so every payload step takes the
               \* "create new step" branch and raises.
               /\ response' = SaveResponse("save", 500, p)
               /\ UNCHANGED config
          ELSE \E sid \in mine : \E shown \in OrderedSteps(sid) :
               LET upserted == UpsertSteps(sid, p, shown, with_ids)
               IN IF UpsertRaises(sid, p, shown, with_ids)
                  THEN /\ response' = SaveResponse("save", 500, p)
                       /\ UNCHANGED config
                  ELSE /\ sequences' = [sequences EXCEPT ![sid] =
                             [@ EXCEPT !.execution_mode = p.execution_mode,
                                       !.condition_config = p.condition_config,
                                       !.stop_on_error = p.stop_on_error,
                                       !.is_active = TRUE]]
                       /\ integrations' = upserted
                       /\ response' = SavedResponse("save", sid, p)
                       /\ UNCHANGED <<lenders, nextSeqId, nextStepId>>
    /\ UNCHANGED <<logs, session, runCount, run>>

\* bag B without the rows outside the set kept
BagFilter(B, kept) ==
    [r \in BagToSet(B) \cap kept |-> B[r]]

\* delete_integration_sequence.  It marks inactive the deployed integrations
\* whose sequence_config carries the id of the deleted sequence; the
\* sequence_config of the deployments modelled here carries no id, so the
\* deployments stay as they are.
DeleteSequence(lender_id, sequence_id) ==
    /\ ~run.active
    /\ saves < MaxSaves
    /\ saves' = saves + 1
    /\ IF ~(sequence_id \in DOMAIN sequences /\ sequences[sequence_id].lender_id = lender_id)
       THEN /\ response' = [op |-> "delete", status |-> 404]
            /\ UNCHANGED <<config, logs>>
       ELSE /\ LET gone == StepIdsOf(sequence_id)
                   kept == {row \in BagToSet(logs) : row.integration_id \notin gone}
               IN /\ logs' = BagFilter(logs, kept)
                  /\ integrations' = Restrict(integrations, DOMAIN integrations \ gone)
            /\ sequences' = Restrict(sequences, DOMAIN sequences \ {sequence_id})
            /\ response' = [op |-> "delete", status |-> 200]
            /\ UNCHANGED <<lenders, nextSeqId, nextStepId>>
    /\ UNCHANGED <<session, runCount, run>>

\* ---------------------------------------------------------- SequenceService
\* one condition of _should_execute_step against the field's value
ConditionHolds(field_value, condition) ==
    CASE condition.type = "equals" -> field_value = condition.value
      [] condition.type = "not_equals" -> field_value # condition.value
      [] condition.type = "exists" -> field_value # Null /\ field_value # Str("")
      [] condition.type = "greater_than" ->
            field_value.t = "num" /\ field_value.v > condition.value.v
      [] condition.type = "less_than" ->
            field_value.t = "num" /\ field_value.v < condition.value.v
      [] OTHER -> TRUE

\* SequenceService._should_execute_step
ShouldExecuteStep(step, current_data, condition_config) ==
    LET key == StrInt(step.id)
        step_conditions == IF key \in DOMAIN condition_config
                           THEN condition_config[key] ELSE EmptyMap
    IN \A field \in DOMAIN step_conditions :
          ConditionHolds(IF field \in DOMAIN current_data THEN current_data[field] ELSE Null,
                         step_conditions[field])

\* ------------------------------------------------------- IntegrationRunner
\* uuid.uuid4() of the n-th call: distinct calls draw distinct values
Uuid4(n) == n

\* mutant of ActiveSequenceIds: the query forgets is_active
ActiveSequenceIdsAnyState(lender_id) ==
    {sid \in DOMAIN sequences : sequences[sid].lender_id = lender_id}

\* _get_active_sequence: ids of the rows the query selects
ActiveSequenceIds(lender_id) ==
    {sid \in DOMAIN sequences :
        sequences[sid].lender_id = lender_id /\ sequences[sid].is_active}

\* _get_steps
GetSteps(sid) == OrderedSteps(sid)

\* the snapshot of an Integration row the run holds, with its id
StepObject(id) == [id |-> id] @@ integrations[id]

\* mutant of Retries: one retry too many
RetriesOffByOne(step) == step.retry_count + 1

\* max(0, int(step.retry_count or 0))
Retries(step) == IF step.retry_count > 0 THEN step.retry_count ELSE 0

RECURSIVE ApplyDependencies(_, _, _)
\* the loop over step.depends_on_fields.items(): deps is the list of
\* <<dest, source>> pairs still to apply
ApplyDependencies(body, deps, previous_outputs) ==
    IF deps = <<>> THEN body
    ELSE LET dest == Head(deps)[1]
             source == Head(deps)[2]
             value == IF source \in DOMAIN previous_outputs
                      THEN previous_outputs[source] ELSE Null
         IN ApplyDependencies(
                IF value # Null THEN SetToPath(body, dest, value) ELSE body,
                Tail(deps), previous_outputs)

\* the request body _execute_step builds (no field mappings, no template)
RequestBody(step, previous_outputs) ==
    ApplyDependencies(Obj(EmptyMap), step.depends_on_fields, previous_outputs)

\* mutant of MappedValue: the fallback is preferred to the default
MappedValueFallbackFirst(m, input_payload) ==
    LET source == GetFromPath(input_payload, m.source_field)
    IN IF source # Null THEN source
       ELSE IF m.fallback_value # Null THEN m.fallback_value ELSE m.default_value

\* the value one field mapping contributes: the source value, else the
\* default, else the fallback (an empty source_field reads as None)
MappedValue(m, input_payload) ==
    LET source == GetFromPath(input_payload, m.source_field)
        value == IF source = Null THEN m.default_value ELSE source
    IN IF value = Null /\ m.fallback_value # Null THEN m.fallback_value ELSE value

\* one iteration of the loop over field_mappings
ApplyFieldMapping(request_body, m, input_payload) ==
    LET value == MappedValue(m, input_payload)
    IN IF value # Null /\ m.target_field # <<>>
       THEN SetToPath(request_body, m.target_field, value)
       ELSE request_body

RECURSIVE ApplyFieldMappings(_, _, _)
\* the loop over field_mappings, in list order
ApplyFieldMappings(request_body, field_mappings, input_payload) ==
    IF field_mappings = <<>> THEN request_body
    ELSE ApplyFieldMappings(ApplyFieldMapping(request_body, Head(field_mappings), input_payload),
                            Tail(field_mappings), input_payload)

PathTemplate == <<"t", "e", "m", "p", "l", "a", "t", "e">>

\* step.request_schema.get("template") when request_schema is a non-empty
\* dict, None otherwise
TemplateOf(request_schema) ==
    IF request_schema.t = "obj" /\ request_schema.m # EmptyMap
          /\ PathTemplate \in DOMAIN request_schema.m
    THEN request_schema.m[PathTemplate]
    ELSE Null

\* mutant of MergeTemplate: the template's keys win
MergeTemplateTemplateWins(template, request_body) ==
    IF template.t = "obj" THEN Obj(template.m @@ request_body.m) ELSE request_body

\* merged = dict(template); every key of request_body overrides, a dict value
\* being laid over the template's dict under the same key
MergeTemplate(template, request_body) ==
    IF template.t = "obj"
    THEN Obj([k \in DOMAIN template.m \cup DOMAIN request_body.m |->
                IF k \in DOMAIN request_body.m
                THEN LET v == request_body.m[k]
                         under == IF k \in DOMAIN template.m /\ template.m[k].t = "obj"
                                  THEN template.m[k].m ELSE EmptyMap
                     IN IF v.t = "obj" THEN Obj(v.m @@ under) ELSE v
                ELSE template.m[k]])
    ELSE request_body

\* the request body _execute_step builds: dependencies, then field mappings,
\* then the template merge
BuildRequestBody(step, field_mappings, input_payload, previous_outputs) ==
    MergeTemplate(
        TemplateOf(step.request_schema),
        ApplyFieldMappings(
            ApplyDependencies(Obj(EmptyMap), step.depends_on_fields, previous_outputs),
            field_mappings, input_payload))

\* resp.json(), or {"raw": resp.text} when the body is not JSON
ParseBody(resp) ==
    IF resp.is_json THEN resp.body ELSE Obj(PathRaw :> resp.body)

RECURSIVE ExtractOutputs(_, _, _)
\* the loop over step.output_fields
ExtractOutputs(data, outs, extracted) ==
    IF outs = <<>> THEN extracted
    ELSE LET val == GetFromPath(IF data.t = "obj" THEN data ELSE Obj(EmptyMap), Head(outs))
         IN ExtractOutputs(data, Tail(outs),
                           IF val # Null THEN Put(extracted, Head(outs), val) ELSE extracted)

\* mutant of LogRow: the row is tagged with the sequence instead of the run
LogRowBySequence(r, step, status) ==
    [integration_id |-> step.id,
     sequence_id |-> r.sequence_id,
     step_order |-> step.sequence_order,
     request_id |-> r.sequence_id,
     response_status |-> status,
     run_no |-> r.run_no]

\* the IntegrationLog row of a step; run_no is a history field (the ordinal
\* of the call of run() that added the row), not a column
LogRow(r, step, status) ==
    [integration_id |-> step.id,
     sequence_id |-> r.sequence_id,
     step_order |-> step.sequence_order,
     request_id |-> r.run_id,
     response_status |-> status,
     run_no |-> r.run_no]

\* the dict _execute_step returns for a response
ResponseResult(step, body, resp) ==
    [step_id |-> step.id,
     status_code |-> resp.status_code,
     request |-> body,
     response |-> ParseBody(resp),
     extracted_outputs |-> ExtractOutputs(ParseBody(resp), step.output_fields, EmptyMap)]

\* the dict _execute_step returns when the last attempt raised
ErrorResult(step, body, exc) ==
    [step_id |-> step.id, error |-> NetworkError.exc, request |-> body]

\* mutant of GotResponse: a status >= 400 is handled like a raised call
GotResponseBelow400(outcome) == outcome \in Responses /\ outcome.status_code < 400

\* whether client.request returned a response (of any status) rather than raised
GotResponse(outcome) == outcome \in Responses

\* a step the run has not started.  sent, answered and seen are history
\* fields: the number of requests the step has sent, the attempt (from 1) that
\* first obtained a response (0: none yet), and the previous_outputs the step
\* read when it built its request.
InitTask == [pc |-> "init", attempt |-> 0, sent |-> 0, answered |-> 0]

\* _execute_step from its start to the first `await client.request`: the
\* request is built from previous_outputs and sent
BeginStep(step, previous_outputs) ==
    [pc |-> "http", attempt |-> 0, sent |-> 1, answered |-> 0,
     seen |-> previous_outputs,
     request |-> RequestBody(step, previous_outputs)]

\* mutant of MergeOutputs: the loop forgets to merge
MergeOutputsDropped(previous_outputs, result) == previous_outputs

\* run(): previous_outputs after the loop has handled `result`
MergeOutputs(previous_outputs, result) ==
    IF "extracted_outputs" \in DOMAIN result /\ result.extracted_outputs # EmptyMap
    THEN result.extracted_outputs @@ previous_outputs
    ELSE previous_outputs

\* what run() returns; called_with (the lender_id argument) and calls (the
\* number of requests each step sent) are history fields
RunResult(r, step_results, calls) ==
    [op |-> "run", called_with |-> r.lender_id, status |-> "ok", run_id |-> r.run_id,
     sequence_id |-> r.sequence_id, lender_id |-> r.lender_id, steps |-> step_results,
     calls |-> calls]

\* asyncio.gather returns once every task has returned or raised
GatherDone(tasks) == \A k \in DOMAIN tasks : tasks[k].pc = "done"

\* mutant of GatherResults: the tasks that raised are left out
GatherResultsDropRaised(tasks) ==
    LET all == [k \in DOMAIN tasks |-> tasks[k].result]
        Returned(res) == "raised" \notin DOMAIN res
    IN SelectSeq(all, Returned)

\* the step list run() builds from the results of asyncio.gather, which are in
\* task order: a task that raised is represented by {"error": str(res)}
GatherResults(tasks) ==
    [k \in DOMAIN tasks |->
        IF "raised" \in DOMAIN tasks[k].result
        THEN [error |-> tasks[k].result.raised]
        ELSE tasks[k].result]

\* IntegrationRunner.run up to its first await on the HTTP client
StartRun(lender_id) ==
    /\ ~run.active
    /\ runCount < MaxRuns
    /\ runCount' = runCount + 1
    /\ LET run_id == Uuid4(runCount + 1)
           active == ActiveSequenceIds(lender_id)
       IN IF lender_id \notin lenders
          THEN \* _get_lender: scalar_one() raises NoResultFound
               /\ response' = [op |-> "run", called_with |-> lender_id,
                               raised |-> "NoResultFound"]
               /\ run' = IdleRun
          ELSE IF Cardinality(active) > 1
          THEN \* _get_active_sequence: scalar_one_or_none() raises
               /\ response' = [op |-> "run", called_with |-> lender_id,
                               raised |-> "MultipleResultsFound"]
               /\ run' = IdleRun
          ELSE IF active = {}
          THEN /\ response' = [op |-> "run", called_with |-> lender_id,
                               status |-> "no_sequence", run_id |-> run_id,
                               steps |-> <<>>, calls |-> <<>>]
               /\ run' = IdleRun
          ELSE \E sid \in active : \E order \in GetSteps(sid) :
               LET steps == [i \in DOMAIN order |-> StepObject(order[i])]
                   r == [active |-> TRUE, run_id |-> run_id, run_no |-> runCount + 1,
                         lender_id |-> lender_id, sequence_id |-> sid,
                         sequence |-> sequences[sid], steps |-> steps,
                         previous_outputs |-> EmptyMap, step_results |-> <<>>]
               IN IF steps = <<>>
                  THEN /\ response' = RunResult(r, <<>>, <<>>)
                       /\ run' = IdleRun
                  ELSE /\ response' = NoResponse
                       /\ run' = [tasks |->
                            [i \in DOMAIN steps |->
                                IF r.sequence.execution_mode = "parallel" \/ i = 1
                                THEN BeginStep(steps[i], EmptyMap) ELSE InitTask]] @@ r
    /\ UNCHANGED <<config, saves, logs, session>>

\* the continuation of _execute_step after `await client.request`: either a
\* response arrived or the call raised
HttpReturn(i, outcome) ==
    /\ run.active
    /\ i \in DOMAIN run.tasks
    /\ run.tasks[i].pc = "http"
    /\ LET step == run.steps[i]
           task == [run.tasks[i] EXCEPT !.answered =
                        IF outcome \in Responses /\ @ = 0 THEN run.tasks[i].attempt + 1 ELSE @]
       IN IF GotResponse(outcome)
          THEN \* extract the outputs, db.add(log), await db.commit()
               /\ session' = session (+) SetToBag({LogRow(run, step, outcome.status_code)})
               /\ run' = [run EXCEPT !.tasks[i] =
                            [pc |-> "commit",
                             result |-> ResponseResult(step, task.request, outcome)] @@ task]
          ELSE IF task.attempt >= Retries(step)
          THEN \* the last attempt raised: db.add(error log), await db.commit()
               /\ session' = session (+) SetToBag({LogRow(run, step, NoStatus)})
               /\ run' = [run EXCEPT !.tasks[i] =
                            [pc |-> "commit",
                             result |-> ErrorResult(step, task.request, outcome)] @@ task]
          ELSE \* await asyncio.sleep(delay)
               /\ session' = session
               /\ run' = [run EXCEPT !.tasks[i] = [task EXCEPT !.pc = "sleep"]]
    /\ response' = NoResponse
    /\ UNCHANGED <<config, saves, logs, runCount>>

\* the continuation of _execute_step after `await asyncio.sleep`: the next
\* attempt sends the same request again
SleepDone(i) ==
    /\ run.active
    /\ i \in DOMAIN run.tasks
    /\ run.tasks[i].pc = "sleep"
    /\ run' = [run EXCEPT !.tasks[i].pc = "http",
                          !.tasks[i].attempt = @ + 1,
                          !.tasks[i].sent = @ + 1]
    /\ response' = NoResponse
    /\ UNCHANGED <<config, saves, logs, session, runCount>>

\* the continuation after `await db.commit()`: _execute_step returns and
\* run() goes on until its next await or its return
Commit(i) ==
    /\ run.active
    /\ i \in DOMAIN run.tasks
    /\ run.tasks[i].pc = "commit"
    /\ logs' = logs (+) session
    /\ session' = EmptyBag
    /\ LET n == Len(run.steps)
           result == run.tasks[i].result
           tasks == [run.tasks EXCEPT ![i].pc = "done"]
           calls == [k \in 1..n |-> tasks[k].sent]
       IN IF run.sequence.execution_mode = "parallel"
          THEN IF GatherDone(tasks)
               THEN /\ response' = RunResult(run, GatherResults(tasks), calls)
                    /\ run' = IdleRun
               ELSE /\ response' = NoResponse
                    /\ run' = [run EXCEPT !.tasks = tasks]
          ELSE LET step_results == Append(run.step_results, result)
                   previous_outputs == MergeOutputs(run.previous_outputs, result)
               IN IF i = n
                  THEN /\ response' = RunResult(run, step_results, calls)
                       /\ run' = IdleRun
                  ELSE /\ response' = NoResponse
                       /\ run' = [run EXCEPT
                            !.step_results = step_results,
                            !.previous_outputs = previous_outputs,
                            !.tasks = [tasks EXCEPT ![i + 1] =
                                         BeginStep(run.steps[i + 1], previous_outputs)]]
    /\ UNCHANGED <<config, saves, runCount>>

\* what str(exc) is for the exception a failed commit raises
DbError == "OperationalError"

\* `await db.commit()` raises.  The session rolls its transaction back, which
\* drops every row added to it and not yet committed.  At line 258 the commit
\* stands inside the try, so `except Exception` handles the exception like a
\* failed request; at line 284 it stands inside the handler, so the exception
\* leaves _execute_step.
CommitRaises(i) ==
    /\ run.active
    /\ i \in DOMAIN run.tasks
    /\ run.tasks[i].pc = "commit"
    /\ logs' = logs
    /\ LET step == run.steps[i]
           task == run.tasks[i]
           n == Len(run.steps)
       IN IF "error" \notin DOMAIN task.result
          THEN IF task.attempt >= Retries(step)
               THEN \* db.add(error log), await db.commit()
                    /\ session' = SetToBag({LogRow(run, step, NoStatus)})
                    /\ run' = [run EXCEPT !.tasks[i].result =
                                 [ErrorResult(step, task.request, NetworkError)
                                    EXCEPT !.error = DbError]]
                    /\ response' = NoResponse
               ELSE \* await asyncio.sleep(delay)
                    /\ session' = EmptyBag
                    /\ run' = [run EXCEPT !.tasks[i] =
                                 [Restrict(task, DOMAIN task \ {"result"})
                                    EXCEPT !.pc = "sleep"]]
                    /\ response' = NoResponse
          ELSE /\ session' = EmptyBag
               /\ IF run.sequence.execution_mode = "parallel"
                  THEN LET tasks == [run.tasks EXCEPT ![i].pc = "done",
                                                      ![i].result = [raised |-> DbError]]
                           calls == [k \in 1..n |-> tasks[k].sent]
                       IN IF GatherDone(tasks)
                          THEN /\ response' = RunResult(run, GatherResults(tasks), calls)
                               /\ run' = IdleRun
                          ELSE /\ response' = NoResponse
                               /\ run' = [run EXCEPT !.tasks = tasks]
                  ELSE \* the exception leaves run()
                       /\ response' = [op |-> "run", called_with |-> run.lender_id,
                                       mode |-> run.sequence.execution_mode,
                                       raised |-> DbError]
                       /\ run' = IdleRun
    /\ UNCHANGED <<config, saves, runCount>>

\* the sequence endpoints and IntegrationRunner.run called directly, with a
\* database that accepts every commit
Next ==
    \/ CreateLender /\ UNCHANGED runtime
    \/ \E l \in LenderIds, p \in SequencePayloads :
            CreateSequence(l, p) /\ UNCHANGED runtime
    \/ \E l \in LenderIds, sid \in 1..MaxSeqs, p \in SequencePayloads,
          activate \in {"keep", "on", "off"}, with_ids \in BOOLEAN :
            UpdateSequence(l, sid, p, activate, with_ids) /\ UNCHANGED runtime
    \/ \E l \in LenderIds, p \in SequencePayloads, with_ids \in BOOLEAN :
            SaveSequenceDeprecated(l, p, with_ids) /\ UNCHANGED runtime
    \/ \E l \in LenderIds, sid \in 1..MaxSeqs :
            DeleteSequence(l, sid) /\ UNCHANGED runtime
    \/ \E l \in RunLenderIds : StartRun(l) /\ UNCHANGED runtime
    \/ \E i \in 1..MaxSteps, outcome \in Outcomes :
            HttpReturn(i, outcome) /\ UNCHANGED runtime
    \/ \E i \in 1..MaxSteps : SleepDone(i) /\ UNCHANGED runtime
    \/ \E i \in 1..MaxSteps : Commit(i) /\ UNCHANGED runtime

Spec == Init /\ [][Next]_vars

\* sequences are created and run with a database whose commits may fail
NextDb ==
    \/ CreateLender /\ UNCHANGED runtime
    \/ \E l \in LenderIds, p \in ValidPayloads :
            CreateSequence(l, p) /\ UNCHANGED runtime
    \/ \E l \in LenderIds : StartRun(l) /\ UNCHANGED runtime
    \/ \E i \in 1..MaxSteps, outcome \in Outcomes :
            HttpReturn(i, outcome) /\ UNCHANGED runtime
    \/ \E i \in 1..MaxSteps : SleepDone(i) /\ UNCHANGED runtime
    \/ \E i \in 1..MaxSteps : Commit(i) /\ UNCHANGED runtime
    \/ \E i \in 1..MaxSteps : CommitRaises(i) /\ UNCHANGED runtime

SpecDb == Init /\ [][NextDb]_vars

\* ------------------------------------------------------------- deployments
\* The deployments are restricted to step configurations of type
\* LEAD_SUBMISSION with method POST, no auth and no request_schema, for
\* lenders without field mappings.
StepConfigs == {[integration_type |-> "LEAD_SUBMISSION", http_method |-> "POST"]}

\* the sequence_config of a deploy request: the configuration of a sequence
\* as the builder holds it
SequenceConfigs ==
    {p \in ValidPayloads : p.execution_mode = "sequential" /\ ~p.stop_on_error}

\* the sequences the lenders have when deployments are executed: one step
\* with retry_count 0, so that a run never sleeps before a retry
RuntimePayloads == {p \in SequenceConfigs : Len(p.steps) = 1}

\* what the endpoints do when deployments are executed
RuntimeOutcomes ==
    {o \in Outcomes : o \in Responses => (o.is_json /\ o.body = Obj(PathA :> V1))}

\* the rows of both deployment tables
Deployments == Cardinality(DOMAIN deployed_apis) + Cardinality(DOMAIN deployed_integrations)

\* no call of the executor is in progress
Quiet == \A e \in DOMAIN execs : execs[e].pc = "done"

NoError == "None"

\* the row deploy_step_api and deploy_integration store: cfg is step_config
\* in table deployed_apis and sequence_config in table deployed_integrations
NewDeployment(lender_id, cfg) ==
    [lender_id |-> lender_id, config |-> cfg, status |-> "active",
     execution_count |-> 0, error_count |-> 0, last_error |-> NoError]

\* deploy_step_api; a missing lender raises HTTPException(404) inside the
\* try, which `except Exception` turns into a 500
DeployStepApi(lender_id, step_config) ==
    /\ Deployments < MaxDeployed
    /\ IF lender_id \notin lenders
       THEN /\ response' = [op |-> "deploy_step_api", status |-> 500]
            /\ UNCHANGED deployed_apis
       ELSE /\ deployed_apis' =
                 Put(deployed_apis, Uuid4(Cardinality(DOMAIN deployed_apis) + 1),
                     NewDeployment(lender_id, step_config))
            /\ response' = [op |-> "deploy_step_api", status |-> 200]
    /\ UNCHANGED <<config, external, logs, session, saves, runCount, run,
                   deployed_integrations, execs, call>>

\* deploy_integration
DeployIntegration(lender_id, sequence_config) ==
    /\ Deployments < MaxDeployed
    /\ IF lender_id \notin lenders
       THEN /\ response' = [op |-> "deploy_integration", status |-> 500]
            /\ UNCHANGED deployed_integrations
       ELSE /\ deployed_integrations' =
                 Put(deployed_integrations,
                     Uuid4(Cardinality(DOMAIN deployed_integrations) + 1),
                     NewDeployment(lender_id, sequence_config))
            /\ response' = [op |-> "deploy_integration", status |-> 200]
    /\ UNCHANGED <<config, external, logs, session, saves, runCount, run,
                   deployed_apis, execs, call>>

\* delete_step_api: a soft delete
DeleteStepApi(step_id) ==
    /\ step_id \in DOMAIN deployed_apis
    /\ deployed_apis[step_id].status = "active"
    /\ deployed_apis' = [deployed_apis EXCEPT ![step_id].status = "inactive"]
    /\ response' = [op |-> "delete_step_api", status |-> 200]
    /\ UNCHANGED <<config, external, logs, session, saves, runCount, run,
                   deployed_integrations, execs, call>>

\* delete_integration_deployment: a soft delete
DeleteIntegrationDeployment(integration_id) ==
    /\ integration_id \in DOMAIN deployed_integrations
    /\ deployed_integrations[integration_id].status = "active"
    /\ deployed_integrations' =
          [deployed_integrations EXCEPT ![integration_id].status = "inactive"]
    /\ response' = [op |-> "delete_integration_deployment", status |-> 200]
    /\ UNCHANGED <<config, external, logs, session, saves, runCount, run,
                   deployed_apis, execs, call>>

\* ---------------------------------------------------------- RuntimeExecutor
\* mutant of IsActive: only the status "error" is refused
IsActiveUnlessError(row) == row.status # "error"

\* mutant of IsActive: the status is not looked at
IsActiveAlways(row) == TRUE

\* deployed_api.status != "active" raises ValueError
IsActive(row) == row.status = "active"

\* mutant of NextExecutionCount: the count is computed from the object the
\* call loaded instead of from the column
NextExecutionCountFromObject(row, seen) == seen.execution_count + 1

\* "execution_count": DeployedAPI.execution_count + 1, an expression over the
\* column that the UPDATE statement evaluates on the row as it is then; seen
\* is the object the call loaded at its start
NextExecutionCount(row, seen) == row.execution_count + 1

\* mutant of UpdateExecutionMetrics: a failure is counted as an error only
UpdateExecutionMetricsErrorOnly(row, seen, success, error) ==
    [row EXCEPT !.execution_count = IF success THEN NextExecutionCount(row, seen) ELSE @,
                !.error_count = IF success THEN @ ELSE @ + 1,
                !.last_error = IF success THEN @ ELSE error]

\* the row after the UPDATE of _update_execution_metrics
UpdateExecutionMetrics(row, seen, success, error) ==
    [row EXCEPT !.execution_count = NextExecutionCount(row, seen),
                !.error_count = IF success THEN @ ELSE @ + 1,
                !.last_error = IF success THEN @ ELSE error]

\* the row after the UPDATE of _update_integration_execution_metrics
UpdateIntegrationExecutionMetrics(row, seen, success, error) ==
    [row EXCEPT !.execution_count = NextExecutionCount(row, seen),
                !.error_count = IF success THEN @ ELSE @ + 1,
                !.last_error = IF success THEN @ ELSE error]

\* the table after a call of the metrics update of its kind that did (ok) or
\* did not go through
MetricsUpdate(kind, table, id, seen, success, error, ok) ==
    IF ~ok THEN table
    ELSE IF kind = "step"
    THEN [table EXCEPT ![id] = UpdateExecutionMetrics(@, seen, success, error)]
    ELSE [table EXCEPT ![id] = UpdateIntegrationExecutionMetrics(@, seen, success, error)]

\* the dict _execute_http_request returns: every exception is caught there
HttpRequestResult(outcome) ==
    IF outcome \in Responses
    THEN [status_code |-> outcome.status_code,
          data |-> IF outcome.is_json THEN outcome.body
                   ELSE Obj(<<"c", "o", "n", "t", "e", "n", "t">> :> outcome.body),
          success |-> outcome.status_code < 400]
    ELSE [success |-> FALSE, error |-> outcome.exc, status_code |-> NoStatus]

SuccessResult(result) == [success |-> TRUE, result |-> result]
FailureResult(error) == [success |-> FALSE, error |-> error]

\* execute_step and execute_integration from the end of the primary
\* execution to their return.  primary is [value |-> v] when the primary
\* execution returned v and [raised |-> e] when it raised e; ok1 and ok2 tell
\* whether the metrics update in the try and the one in the handler go
\* through.  The value is the table after the call and the dict returned.
ExecutorReturn(kind, table, id, seen, primary, ok1, ok2) ==
    IF "raised" \notin DOMAIN primary /\ ok1
    THEN [table |-> MetricsUpdate(kind, table, id, seen, TRUE, NoError, TRUE),
          result |-> SuccessResult(primary.value)]
    ELSE LET error == IF "raised" \in DOMAIN primary THEN primary.raised ELSE DbError
         IN [table |-> MetricsUpdate(kind, table, id, seen, FALSE, error, ok2),
             result |-> FailureResult(error)]

\* the record of a call of the executor that has returned.  found, active,
\* sent, ran, primary, before and after are history fields: whether the
\* lookup found a row and the row was active, the number of HTTP requests the
\* executor itself issued, whether IntegrationRunner.run was invoked, the
\* outcome of the primary execution, and the row just before and just after
\* the call's metrics update.
Returned(exec, result, before, after) ==
    [pc |-> "done", result |-> result, before |-> before, after |-> after] @@ exec

\* a call of the executor whose lookup finds no row: ValueError, no metrics
NotFound(kind, id) ==
    [kind |-> kind, id |-> id, pc |-> "done", found |-> FALSE, active |-> FALSE,
     sent |-> 0, ran |-> FALSE, result |-> FailureResult("not found")]

\* a call of the executor whose lookup found `row`
Found(kind, id, row) ==
    [kind |-> kind, id |-> id, found |-> TRUE, active |-> row.status = "active",
     seen |-> row, sent |-> 0, ran |-> FALSE,
     overlaps |-> \E k \in DOMAIN execs :
                    execs[k].kind = kind /\ execs[k].id = id /\ execs[k].pc # "done"]

\* execute_step up to `await client.post`; ok tells whether the metrics
\* update of the handler goes through
ExecuteStep(step_id, ok) ==
    /\ Len(execs) < MaxExecs
    /\ IF step_id \notin DOMAIN deployed_apis
       THEN /\ execs' = Append(execs, NotFound("step", step_id))
            /\ UNCHANGED deployed_apis
       ELSE LET row == deployed_apis[step_id]
                exec == Found("step", step_id, row)
            IN IF ~IsActive(row)
               THEN LET ret == ExecutorReturn("step", deployed_apis, step_id, row,
                                              [raised |-> "not active"], TRUE, ok)
                    IN /\ deployed_apis' = ret.table
                       /\ execs' = Append(execs, Returned(exec, ret.result, row,
                                                          ret.table[step_id]))
               ELSE /\ execs' = Append(execs, [pc |-> "http", sent |-> 1] @@ exec)
                    /\ UNCHANGED deployed_apis
    /\ UNCHANGED <<config, external, logs, session, saves, runCount, run, response,
                   deployed_integrations, call>>

\* execute_step after `await client.post`: _execute_http_request returns its
\* dict, the metrics are updated and the call returns
StepHttpReturn(e, outcome, ok1, ok2) ==
    /\ e \in DOMAIN execs
    /\ execs[e].pc = "http"
    /\ LET exec == execs[e]
           primary == [value |-> HttpRequestResult(outcome)]
           ret == ExecutorReturn("step", deployed_apis, exec.id, exec.seen,
                                 primary, ok1, ok2)
       IN /\ deployed_apis' = ret.table
          /\ execs' = [execs EXCEPT ![e] =
                         Returned([primary |-> primary] @@ exec, ret.result,
                                  deployed_apis[exec.id], ret.table[exec.id])]
    /\ UNCHANGED <<config, external, logs, session, saves, runCount, run, response,
                   deployed_integrations, call>>

\* execute_integration up to the call of IntegrationRunner.run
ExecuteIntegration(integration_id, ok) ==
    /\ Len(execs) < MaxExecs
    /\ IF integration_id \notin DOMAIN deployed_integrations
       THEN /\ execs' = Append(execs, NotFound("integration", integration_id))
            /\ UNCHANGED deployed_integrations
       ELSE LET row == deployed_integrations[integration_id]
                exec == Found("integration", integration_id, row)
            IN IF ~IsActive(row)
               THEN LET ret == ExecutorReturn("integration", deployed_integrations,
                                              integration_id, row,
                                              [raised |-> "not active"], TRUE, ok)
                    IN /\ deployed_integrations' = ret.table
                       /\ execs' = Append(execs, Returned(exec, ret.result, row,
                                                          ret.table[integration_id]))
               ELSE /\ execs' = Append(execs, [pc |-> "call_run"] @@ exec)
                    /\ UNCHANGED deployed_integrations
    /\ UNCHANGED <<config, external, logs, session, saves, runCount, run, response,
                   deployed_apis, call>>

\* what the run that has just ended (response') means for the call of
\* execute_integration that awaits it: the metrics are updated and the call
\* returns
IntegrationReturn(e, xs, ok1, ok2) ==
    LET exec == xs[e]
        primary == IF "raised" \in DOMAIN response'
                   THEN [raised |-> response'.raised]
                   ELSE [value |-> response']
        ret == ExecutorReturn("integration", deployed_integrations, exec.id,
                              exec.seen, primary, ok1, ok2)
    IN /\ deployed_integrations' = ret.table
       /\ execs' = [xs EXCEPT ![e] =
                      Returned([primary |-> primary] @@ exec, ret.result,
                               deployed_integrations[exec.id], ret.table[exec.id])]

\* execute_integration calls self.integration_runner.run with the lender of
\* the deployment
IntegrationRun(e, ok1, ok2) ==
    /\ e \in DOMAIN execs
    /\ execs[e].pc = "call_run"
    /\ StartRun(execs[e].seen.lender_id)
    /\ LET xs == [execs EXCEPT ![e].pc = "run", ![e].ran = TRUE]
       IN IF run'.active
          THEN execs' = xs /\ UNCHANGED deployed_integrations
          ELSE IntegrationReturn(e, xs, ok1, ok2)
    /\ UNCHANGED <<deployed_apis, call, external>>

\* a step of the run that execute_integration awaits ends the run or not
RunnerStep(ok1, ok2) ==
    /\ IF run'.active
       THEN UNCHANGED <<deployed_integrations, execs>>
       ELSE IntegrationReturn(CHOOSE e \in DOMAIN execs : execs[e].pc = "run",
                              execs, ok1, ok2)
    /\ UNCHANGED <<deployed_apis, call, external>>

\* deployments and the executor, with a database that accepts every update
NextRuntime ==
    \/ Quiet /\ CreateLender /\ UNCHANGED runtime
    \/ \E l \in LenderIds, p \in RuntimePayloads :
            Quiet /\ CreateSequence(l, p) /\ UNCHANGED runtime
    \/ \E l \in RunLenderIds, cfg \in StepConfigs : Quiet /\ DeployStepApi(l, cfg)
    \/ \E l \in RunLenderIds, cfg \in SequenceConfigs :
            Quiet /\ DeployIntegration(l, cfg)
    \/ \E id \in 1..MaxDeployed : Quiet /\ DeleteStepApi(id)
    \/ \E id \in 1..MaxDeployed : Quiet /\ DeleteIntegrationDeployment(id)
    \/ \E id \in 1..MaxDeployed : ExecuteStep(id, TRUE)
    \/ \E e \in 1..MaxExecs, outcome \in RuntimeOutcomes :
            StepHttpReturn(e, outcome, TRUE, TRUE)
    \/ \E id \in 1..MaxDeployed : ExecuteIntegration(id, TRUE)
    \/ \E e \in 1..MaxExecs : IntegrationRun(e, TRUE, TRUE)
    \/ \E i \in 1..MaxSteps, outcome \in RuntimeOutcomes :
            HttpReturn(i, outcome) /\ UNCHANGED runtime
    \/ \E i \in 1..MaxSteps : Commit(i) /\ RunnerStep(TRUE, TRUE)

SpecRuntime == Init /\ [][NextRuntime]_vars

\* the same with a database that may refuse a metrics update
NextRuntimeDb ==
    \/ NextRuntime
    \/ \E id \in 1..MaxDeployed : ExecuteStep(id, FALSE)
    \/ \E e \in 1..MaxExecs, outcome \in RuntimeOutcomes, ok2 \in BOOLEAN :
            StepHttpReturn(e, outcome, FALSE, ok2)
    \/ \E id \in 1..MaxDeployed : ExecuteIntegration(id, FALSE)
    \/ \E e \in 1..MaxExecs, ok2 \in BOOLEAN : IntegrationRun(e, FALSE, ok2)
    \/ \E e \in 1..MaxExecs : IntegrationRun(e, TRUE, FALSE)
    \/ \E i \in 1..MaxSteps, ok2 \in BOOLEAN : Commit(i) /\ RunnerStep(FALSE, ok2)

SpecRuntimeDb == Init /\ [][NextRuntimeDb]_vars

\* ----------------------------------------------------- path accessor calls
PathChars == {"$", ".", "a", "b"}

\* every path string over PathChars of at most MaxPathLen characters, the
\* empty one included
PathStrings == UNION {[1..n -> PathChars] : n \in 0..MaxPathLen}

\* root maps: empty, one whose key a holds a value that is not a map, and one
\* whose key a holds a map
RootMaps ==
    {Obj(EmptyMap),
     Obj(<<"a">> :> Str("x")),
     Obj(<<"a">> :> Obj(<<"b">> :> Str("x")))}

PathValues == {V1, Null, Obj(<<"b">> :> V2)}

\* the arguments of a call _set_to_path(data, path, value)
InitPath ==
    /\ Init!1 /\ Init!2 /\ Init!3 /\ Init!4 /\ Init!5 /\ Init!6 /\ Init!7
    /\ Init!8 /\ Init!9 /\ Init!10 /\ Init!11 /\ Init!12 /\ Init!13 /\ Init!14
    /\ Init!16 /\ Init!17 /\ Init!18
    /\ call \in [fn : {"args"}, data : RootMaps, path : PathStrings, value : PathValues]

\* _set_to_path(data, path, value) mutates data
CallSetToPath ==
    /\ call.fn = "args"
    /\ call' = [call EXCEPT !.fn = "set",
                            !.data = SetToPath(call.data, call.path, call.value)]
    /\ UNCHANGED <<config, external, logs, session, saves, runCount, run, response,
                   deployed_apis, deployed_integrations, execs>>

\* _get_from_path(data, path) on the map that was written
CallGetFromPath ==
    /\ call.fn = "set"
    /\ call' = [fn |-> "get", result |-> GetFromPath(call.data, call.path)] @@ call
    /\ UNCHANGED <<config, external, logs, session, saves, runCount, run, response,
                   deployed_apis, deployed_integrations, execs>>

NextPath == CallSetToPath \/ CallGetFromPath

SpecPath == InitPath /\ [][NextPath]_vars

\* ------------------------------------------------ request body construction
PathAB == <<"a", ".", "b">>
PathRootAB == <<"$", ".", "a", ".", "b">>
PathRootOnly == <<"$", ".">>

\* FieldMapping rows of the lender, reduced to the columns _execute_step reads
FieldMappings ==
    [source_field : {<<>>, PathA, PathRootAB},
     default_value : {Null, Str("default")},
     fallback_value : {Null, Str("fallback")},
     target_field : {<<>>, PathA, PathAB, PathRootOnly}]

FieldMappingLists == UNION {[1..n -> FieldMappings] : n \in 0..MaxMappings}

\* request_schema of a step: absent, with a template that is not a dict, with
\* flat template and with a template whose key a holds a dict
RequestSchemas ==
    {Null,
     Obj(PathTemplate :> Str("tpl")),
     Obj(PathTemplate :> Obj((<<"a">> :> Str("tpl")) @@ (<<"c">> :> Str("tpl")))),
     Obj(PathTemplate :> Obj(<<"a">> :> Obj((<<"b">> :> Str("tpl")) @@ (<<"c">> :> Str("tpl")))))}

BodySteps ==
    [depends_on_fields : {<<>>, << <<PathA, PathRef>> >>}, request_schema : RequestSchemas]

PreviousOutputs == {EmptyMap, PathRef :> V2, PathRef :> Obj(<<"c">> :> V2)}

\* the arguments of one request body construction of _execute_step
InitBody ==
    /\ Init!1 /\ Init!2 /\ Init!3 /\ Init!4 /\ Init!5 /\ Init!6 /\ Init!7
    /\ Init!8 /\ Init!9 /\ Init!10 /\ Init!11 /\ Init!12 /\ Init!13 /\ Init!14
    /\ Init!16 /\ Init!17 /\ Init!18
    /\ call \in [fn : {"body_args"}, step : BodySteps, field_mappings : FieldMappingLists,
                 input_payload : RootMaps, previous_outputs : PreviousOutputs]

\* the request body after each of the first n field mappings, n = 0 first
BodiesAfterMappings(c) ==
    [n \in 1..(Len(c.field_mappings) + 1) |->
        ApplyFieldMappings(
            ApplyDependencies(Obj(EmptyMap), c.step.depends_on_fields, c.previous_outputs),
            SubSeq(c.field_mappings, 1, n - 1), c.input_payload)]

\* lines 154-186 of _execute_step: the body is built and merged with the template
CallBuildRequestBody ==
    /\ call.fn = "body_args"
    /\ call' = [fn |-> "body",
                after_mappings |-> BodiesAfterMappings(call),
                request_body |-> BuildRequestBody(call.step, call.field_mappings,
                                                  call.input_payload, call.previous_outputs)]
               @@ call
    /\ UNCHANGED <<config, external, logs, session, saves, runCount, run, response,
                   deployed_apis, deployed_integrations, execs>>

NextBody == CallBuildRequestBody

SpecBody == InitBody /\ [][NextBody]_vars

\* ------------------------------------ SequenceService._execute_conditional
\* steps of a conditional sequence as _get_sequence_steps returns them
ConditionalSteps ==
    UNION {[1..n -> [output_fields : {<<>>, <<PathA>>}]] : n \in 1..MaxSteps}

\* condition_config: for each step none, "a exists" or "a equals V2"
StepConditions ==
    {EmptyMap,
     PathA :> [type |-> "exists", value |-> Null],
     PathA :> [type |-> "equals", value |-> V2]}

ConditionConfigs(n) == [{StrInt(id) : id \in 1..n} -> StepConditions]

InitialData == {EmptyMap, PathA :> V2}

\* what the third-party endpoint may answer to _make_api_call: JSON objects,
\* a text that contains the output field's name, JSON null, or no answer
ConditionalOutcomes ==
    {[status_code |-> 200, is_json |-> TRUE, body |-> Obj(PathA :> V1)],
     [status_code |-> 500, is_json |-> TRUE, body |-> Obj(PathA :> V1)],
     [status_code |-> 200, is_json |-> FALSE, body |-> Str(<<"n", "a">>)],
     [status_code |-> 200, is_json |-> TRUE, body |-> Null],
     NetworkError}

\* IntegrationService._make_api_call: the result of one call
ApiCallResult(outcome) ==
    IF outcome = NetworkError
    THEN [status_code |-> NoStatus, data |-> Null, success |-> FALSE,
          error |-> outcome.exc]
    ELSE [status_code |-> outcome.status_code, data |-> outcome.body,
          success |-> outcome.status_code < 400,
          error |-> IF outcome.status_code < 400 THEN NoError ELSE "Unknown error occurred"]

\* `field in text` of Python for two strings
IsSubstring(field, text) ==
    \E i \in 1..(Len(text) - Len(field) + 1) : SubSeq(text, i, i + Len(field) - 1) = field

RECURSIVE CopyOutputFields(_, _, _)
\* the loop over step.output_fields; a TypeError leaves the loop
CopyOutputFields(current_data, output_fields, response_data) ==
    IF output_fields = <<>> THEN [raised |-> FALSE, current_data |-> current_data]
    ELSE LET field == Head(output_fields)
         IN CASE response_data.t = "obj" ->
                    CopyOutputFields(
                        IF field \in DOMAIN response_data.m
                        THEN Put(current_data, field, response_data.m[field])
                        ELSE current_data,
                        Tail(output_fields), response_data)
              [] response_data.t = "str" ->
                    IF IsSubstring(field, response_data.v)
                    THEN [raised |-> TRUE, current_data |-> current_data]
                    ELSE CopyOutputFields(current_data, Tail(output_fields), response_data)
              [] OTHER -> [raised |-> TRUE, current_data |-> current_data]

\* mutant of StepOutputsInto: the outputs are copied whatever the result
StepOutputsIntoAnyResult(current_data, step, step_result) ==
    IF step.output_fields # <<>> /\ step_result.data.t = "obj"
    THEN CopyOutputFields(current_data, step.output_fields, step_result.data)
    ELSE [raised |-> FALSE, current_data |-> current_data]

\* if step.output_fields and step_result.get('success'): copy the outputs
StepOutputsInto(current_data, step, step_result) ==
    IF step.output_fields # <<>> /\ step_result.success
    THEN CopyOutputFields(current_data, step.output_fields, step_result.data)
    ELSE [raised |-> FALSE, current_data |-> current_data]

SkippedLog(step) ==
    [step_id |-> step.id, skipped |-> TRUE, reason |-> "Condition not met"]

ResultLog(step, step_result) ==
    [step_id |-> step.id, output_data |-> step_result.data,
     success |-> step_result.success, error |-> step_result.error]

ExceptionLog(step, error) ==
    [step_id |-> step.id, success |-> FALSE, error |-> error]

\* the arguments of a call of _execute_conditional
InitConditional ==
    /\ Init!1 /\ Init!2 /\ Init!3 /\ Init!4 /\ Init!5 /\ Init!6 /\ Init!7
    /\ Init!8 /\ Init!9 /\ Init!10 /\ Init!11 /\ Init!12 /\ Init!13 /\ Init!14
    /\ Init!16 /\ Init!17 /\ Init!18
    /\ \E steps \in ConditionalSteps, stop_on_error \in BOOLEAN, initial_data \in InitialData :
       \E condition_config \in ConditionConfigs(Len(steps)) :
          call = [fn |-> "conditional", pc |-> "loop",
                  steps |-> [i \in DOMAIN steps |-> [id |-> i] @@ steps[i]],
                  condition_config |-> condition_config,
                  stop_on_error |-> stop_on_error,
                  current_data |-> initial_data,
                  i |-> 1, results |-> <<>>, success |-> TRUE, api_calls |-> <<>>]

\* the call after one more entry of results['steps']: the loop goes on, or it
\* ends (break, or no step left) and final_result is set
AfterStep(c, current_data, step_log, break) ==
    LET ended == break \/ c.i = Len(c.steps)
        next == [c EXCEPT !.pc = IF ended THEN "done" ELSE "loop",
                          !.i = c.i + 1,
                          !.current_data = current_data,
                          !.results = Append(c.results, step_log),
                          !.success = IF break THEN FALSE ELSE c.success]
    IN IF ended THEN [final_result |-> current_data] @@ next ELSE next

ConditionalFrame ==
    UNCHANGED <<config, external, logs, session, saves, runCount, run, response,
                deployed_apis, deployed_integrations, execs>>

\* one iteration up to its first await: the step is skipped, or its request
\* is prepared and sent
ConditionalBeginStep ==
    /\ call.fn = "conditional" /\ call.pc = "loop"
    /\ LET step == call.steps[call.i]
       IN IF ~ShouldExecuteStep(step, call.current_data, call.condition_config)
          THEN call' = AfterStep(call, call.current_data, SkippedLog(step), FALSE)
          ELSE call' = [call EXCEPT !.pc = "api",
                                    !.api_calls = Append(call.api_calls, step.id)]
    /\ ConditionalFrame

\* _get_field_mappings or _prepare_request raises before the request is sent
ConditionalPrepareRaises ==
    /\ call.fn = "conditional" /\ call.pc = "loop"
    /\ LET step == call.steps[call.i]
       IN /\ ShouldExecuteStep(step, call.current_data, call.condition_config)
          /\ call' = AfterStep(call, call.current_data, ExceptionLog(step, DbError),
                               call.stop_on_error)
    /\ ConditionalFrame

\* _make_api_call returns: outputs are copied, the step is logged, the loop
\* breaks on a failure when stop_on_error is set
ConditionalApiReturn(outcome) ==
    /\ call.fn = "conditional" /\ call.pc = "api"
    /\ LET step == call.steps[call.i]
           step_result == ApiCallResult(outcome)
           copied == StepOutputsInto(call.current_data, step, step_result)
       IN IF copied.raised
          THEN call' = AfterStep(call, copied.current_data,
                                 ExceptionLog(step, "TypeError"), call.stop_on_error)
          ELSE call' = AfterStep(call, copied.current_data, ResultLog(step, step_result),
                                 ~step_result.success /\ call.stop_on_error)
    /\ ConditionalFrame

NextConditional ==
    \/ ConditionalBeginStep
    \/ ConditionalPrepareRaises
    \/ \E outcome \in ConditionalOutcomes : ConditionalApiReturn(outcome)

SpecConditional == InitConditional /\ [][NextConditional]_vars

\* ------------------------------------------- external lead submission
\* Idempotency-Key header values: absent, empty, and a key
IdempotencyKeys == {Null, Str(""), Str("k1")}

\* the requests external_lead_submission is still handling
InFlight == {i \in DOMAIN requests : requests[i].pc \in {"accepted", "running"}}

\* mutant of IsDuplicate: an entry of the cache never expires
IsDuplicateForever(cache, idempotency_key, now) ==
    idempotency_key \in DOMAIN cache

\* exp = _IDEMPOTENCY_CACHE.get(key); exp and exp > now
IsDuplicate(cache, idempotency_key, now) ==
    /\ idempotency_key \in DOMAIN cache
    /\ cache[idempotency_key] # 0
    /\ cache[idempotency_key] > now

\* mutant of CheckIdempotency: the key is never recorded
CheckIdempotencyNoRecord(cache, idempotency_key, now) ==
    IF idempotency_key = Null \/ idempotency_key = Str("")
    THEN [raised |-> FALSE, cache |-> cache]
    ELSE [raised |-> IsDuplicate(cache, idempotency_key, now), cache |-> cache]

\* _check_idempotency, which runs without an await: whether it raises the
\* 409, and the cache it leaves
CheckIdempotency(cache, idempotency_key, now) ==
    IF idempotency_key = Null \/ idempotency_key = Str("")
    THEN [raised |-> FALSE, cache |-> cache]
    ELSE IF IsDuplicate(cache, idempotency_key, now)
    THEN [raised |-> TRUE, cache |-> cache]
    ELSE [raised |-> FALSE, cache |-> Put(cache, idempotency_key, now + IdempotencyTtl)]

\* time.time() advances
Tick ==
    /\ clock < MaxClock
    /\ clock' = clock + 1
    /\ UNCHANGED <<config, logs, session, saves, runCount, run, response,
                   deployed_apis, deployed_integrations, execs, call,
                   idempotency_cache, requests>>

\* a request reaches external_lead_submission: _check_api_key, then
\* _check_idempotency, then runner.run is called and awaits the database
ExternalLeadSubmission(lender_id, idempotency_key, authorised) ==
    /\ Len(requests) < MaxRequests
    /\ LET request == [lender_id |-> lender_id, key |-> idempotency_key,
                       authorised |-> authorised, at |-> clock,
                       overlaps |-> InFlight, ran |-> FALSE]
           checked == CheckIdempotency(idempotency_cache, idempotency_key, clock)
       IN IF ~authorised
          THEN /\ requests' = Append(requests, [pc |-> "rejected", status |-> 401] @@ request)
               /\ UNCHANGED idempotency_cache
          ELSE IF checked.raised
          THEN /\ requests' = Append(requests, [pc |-> "rejected", status |-> 409] @@ request)
               /\ UNCHANGED idempotency_cache
          ELSE /\ requests' = Append(requests,
                                     [pc |-> "accepted", status |-> NoStatus] @@ request)
               /\ idempotency_cache' = checked.cache
    /\ UNCHANGED <<config, logs, session, saves, runCount, run, response,
                   deployed_apis, deployed_integrations, execs, call, clock>>

\* the request whose run has just ended (response') is answered: 200 with the
\* run's result, 500 when the run raised
ExternalReturn(i, reqs) ==
    [reqs EXCEPT ![i].pc = "returned",
                 ![i].status = IF "raised" \in DOMAIN response' THEN 500 ELSE 200]

\* runner.run(db, lender_id, payload, mode="live") of an accepted request
\* reads the lender, the sequence and the steps and sends the first requests
ExternalRun(i) ==
    /\ i \in DOMAIN requests
    /\ requests[i].pc = "accepted"
    /\ StartRun(requests[i].lender_id)
    /\ LET reqs == [requests EXCEPT ![i].pc = "running", ![i].ran = TRUE]
       IN requests' = IF run'.active THEN reqs ELSE ExternalReturn(i, reqs)
    /\ UNCHANGED <<deployed_apis, deployed_integrations, execs, call,
                   idempotency_cache, clock>>

\* a step of the run an external request awaits ends the run or not
ExternalRunnerStep ==
    /\ requests' = IF run'.active THEN requests
                   ELSE ExternalReturn(CHOOSE i \in DOMAIN requests :
                                            requests[i].pc = "running", requests)
    /\ UNCHANGED <<deployed_apis, deployed_integrations, execs, call,
                   idempotency_cache, clock>>

\* the external endpoint, with one lender that has one-step sequences
NextExternal ==
    \/ requests = <<>> /\ CreateLender /\ UNCHANGED runtime
    \/ \E l \in LenderIds, p \in RuntimePayloads :
            requests = <<>> /\ CreateSequence(l, p) /\ UNCHANGED runtime
    \/ Tick
    \/ \E l \in LenderIds, k \in IdempotencyKeys, authorised \in BOOLEAN :
            ExternalLeadSubmission(l, k, authorised)
    \/ \E i \in 1..MaxRequests : ExternalRun(i)
    \/ \E i \in 1..MaxSteps, outcome \in RuntimeOutcomes :
            HttpReturn(i, outcome) /\ UNCHANGED runtime
    \/ \E i \in 1..MaxSteps : Commit(i) /\ ExternalRunnerStep

SpecExternal == Init /\ [][NextExternal]_vars

\* ==================================================================== claims
\* a step result that counts as failed for the orchestration: the last
\* attempt raised, or the response has status >= 400
Failed(result) ==
    IF "error" \in DOMAIN result THEN TRUE ELSE result.status_code >= 400

\* the run in progress executes its steps one at a time
Stepwise == run.active /\ run.sequence.execution_mode \in {"sequential", "conditional"}

\* the last request was a call of run() that returned status "ok"
RunReturnedOk ==
    response.op = "run" /\ "status" \in DOMAIN response /\ response.status = "ok"

\* rows added to the log table, committed or pending in the session
AllRows == BagToSet(logs) \cup BagToSet(session)

\* number of log rows of step step_id tagged with request_id in bag B
RowCount(B, request_id, step_id) ==
    LET match == {row \in BagToSet(B) : row.request_id = request_id
                                         /\ row.integration_id = step_id}
    IN BagCardinality(BagFilter(B, match))

RECURSIVE OutputsOf(_)
\* the outputs extracted by a list of step results, a later step's value
\* replacing an earlier one under the same key
OutputsOf(results) ==
    IF results = <<>> THEN EmptyMap
    ELSE LET last == results[Len(results)]
             before == OutputsOf(SubSeq(results, 1, Len(results) - 1))
             mine == IF "extracted_outputs" \in DOMAIN last
                     THEN last.extracted_outputs ELSE EmptyMap
         IN [k \in DOMAIN before \cup DOMAIN mine |->
                IF k \in DOMAIN mine THEN mine[k] ELSE before[k]]

RECURSIVE SuccessfulOutputsOf(_)
\* the same, counting only the steps that did not fail
SuccessfulOutputsOf(results) ==
    IF results = <<>> THEN EmptyMap
    ELSE LET last == results[Len(results)]
             before == SuccessfulOutputsOf(SubSeq(results, 1, Len(results) - 1))
             mine == IF Failed(last) THEN EmptyMap ELSE last.extracted_outputs
         IN [k \in DOMAIN before \cup DOMAIN mine |->
                IF k \in DOMAIN mine THEN mine[k] ELSE before[k]]

\* C1: in a sequential run with stop_on_error = true, once a step has finished
\* failed (status >= 400 or network failure) no later step sends a request, and
\* the returned step list ends with the failed step.
C1_StopOnErrorHalts ==
    /\ (run.active /\ run.sequence.execution_mode = "sequential"
            /\ run.sequence.stop_on_error) =>
        \A i, j \in DOMAIN run.tasks :
            (i < j /\ run.tasks[i].pc = "done" /\ Failed(run.tasks[i].result))
                => run.tasks[j].sent = 0
    /\ (RunReturnedOk /\ sequences[response.sequence_id].execution_mode = "sequential"
            /\ sequences[response.sequence_id].stop_on_error) =>
        \A k \in DOMAIN response.steps :
            Failed(response.steps[k]) => k = Len(response.steps)

\* C2: in a sequential run with stop_on_error = false, the step after a failed
\* step is still executed, and the previous_outputs a step reads hold nothing
\* extracted from a failed step: they are the outputs of the earlier steps that
\* did not fail.
C2_FailedStepNotMerged ==
    (run.active /\ run.sequence.execution_mode = "sequential"
        /\ ~run.sequence.stop_on_error) =>
        \A j \in DOMAIN run.tasks :
            /\ (j > 1 /\ run.tasks[j - 1].pc = "done") => run.tasks[j].pc # "init"
            /\ run.tasks[j].pc # "init" =>
                run.tasks[j].seen = SuccessfulOutputsOf(SubSeq(run.step_results, 1, j - 1))

C4_ParallelDepsRejected ==
    /\ (response.op \in {"create", "update", "save"} /\ response.parallel_deps)
            => response.status # 200
    /\ \A sid \in DOMAIN sequences :
            sequences[sid].execution_mode = "parallel" =>
                \A id \in StepIdsOf(sid) : integrations[id].depends_on_fields = <<>>
    /\ (run.active /\ run.sequence.execution_mode = "parallel") =>
            \A i \in DOMAIN run.steps : run.steps[i].depends_on_fields = <<>>

\* C5: in a conditional run, a step whose condition_config[str(step.id)]
\* predicate is false against the data accumulated at its turn sends no request.
C5_FalseConditionSkips ==
    (run.active /\ run.sequence.execution_mode = "conditional") =>
        \A j \in DOMAIN run.tasks :
            (run.tasks[j].pc # "init"
                /\ ~ShouldExecuteStep(run.steps[j], run.tasks[j].seen,
                                      run.sequence.condition_config))
                => run.tasks[j].sent = 0

\* C6: a step with retry_count = R sends at most R + 1 requests, sends none
\* after the first attempt that obtained a response, and adds exactly one log
\* row however many attempts it made.
C6_RetryBound ==
    /\ run.active =>
        \A i \in DOMAIN run.tasks :
            LET t == run.tasks[i]
                step == run.steps[i]
            IN /\ t.sent <= step.retry_count + 1
               /\ t.answered # 0 => (t.sent = t.answered /\ t.pc \in {"commit", "done"})
               /\ RowCount(logs (+) session, run.run_id, step.id)
                    = (IF t.pc \in {"commit", "done"} THEN 1 ELSE 0)
               /\ t.pc = "done" => RowCount(logs, run.run_id, step.id) = 1
    /\ RunReturnedOk =>
        /\ session = EmptyBag
        /\ \A k \in DOMAIN response.steps :
            LET id == response.steps[k].step_id
            IN /\ response.calls[k] <= integrations[id].retry_count + 1
               /\ response.calls[k] >= 1
               /\ RowCount(logs, response.run_id, id) = 1

\* C6 witness: a step with retry_count = 2 whose endpoint failed twice and then
\* answered reported the response after 3 requests, with 1 log row
C6_Witness ==
    /\ RunReturnedOk
    /\ \E k \in DOMAIN response.steps :
        /\ integrations[response.steps[k].step_id].retry_count = 2
        /\ response.calls[k] = 3
        /\ "status_code" \in DOMAIN response.steps[k]
        /\ RowCount(logs, response.run_id, response.steps[k].step_id) = 1

\* C7: a response of any status, 4xx and 5xx included, ends the retry loop: a
\* step retries only while no attempt has obtained a response, so a step whose
\* first attempt obtained a response has sent exactly one request.
C7_ResponseNotRetried ==
    run.active =>
        \A i \in DOMAIN run.tasks :
            LET t == run.tasks[i]
            IN /\ (t.pc = "sleep" \/ (t.pc = "http" /\ t.attempt > 0)) => t.answered = 0
               /\ t.answered = 1 =>
                    /\ t.sent = 1
                    /\ t.pc \in {"commit", "done"}
                    /\ "status_code" \in DOMAIN t.result

\* C7 witness: a step with retries left got a 500 on its first attempt and went
\* on to log it
C7_Witness ==
    /\ run.active
    /\ \E i \in DOMAIN run.tasks :
        /\ run.steps[i].retry_count > 0
        /\ run.tasks[i].pc = "commit"
        /\ run.tasks[i].sent = 1
        /\ "status_code" \in DOMAIN run.tasks[i].result
        /\ run.tasks[i].result.status_code = 500

\* C8: a run for an existing lender that has no sequence with is_active = true
\* returns status "no_sequence" with an empty step list, sends no request and
\* adds no log row.
C8_NoSequence ==
    (/\ response.op = "run"
     /\ response.called_with \in lenders
     /\ ~\E sid \in DOMAIN sequences :
            sequences[sid].lender_id = response.called_with /\ sequences[sid].is_active)
    => /\ "status" \in DOMAIN response
       /\ response.status = "no_sequence"
       /\ response.steps = <<>>
       /\ response.calls = <<>>
       /\ \A row \in AllRows : row.request_id # response.run_id
       /\ ~run.active

\* C8 witness: the lender has a sequence, but an inactive one, and the run
\* returned no_sequence
C8_Witness ==
    /\ response.op = "run"
    /\ "status" \in DOMAIN response
    /\ response.status = "no_sequence"
    /\ \E sid \in DOMAIN sequences : sequences[sid].lender_id = response.called_with

\* C9: run() never raises when the configuration cannot be resolved.
C9_NeverRaises ==
    response.op = "run" => "raised" \notin DOMAIN response

\* C10: all log rows added by one run carry one request_id, the run_id the run
\* returns, and rows added by different runs carry different request_ids.
C10_SharedRunId ==
    /\ \A r1, r2 \in AllRows : (r1.run_no = r2.run_no) <=> (r1.request_id = r2.request_id)
    /\ run.active =>
        \A row \in AllRows : row.run_no = run.run_no => row.request_id = run.run_id
    /\ (response.op = "run" /\ "run_id" \in DOMAIN response) =>
        \A row \in AllRows : row.run_no = runCount => row.request_id = response.run_id

\* C10 witness: the log holds two rows of one run and a row of another run
C10_Witness ==
    \E r1, r2, r3 \in BagToSet(logs) :
        /\ r1 # r2
        /\ r1.run_no = r2.run_no
        /\ r3.run_no # r1.run_no
        /\ RunReturnedOk
        /\ r1.request_id = response.run_id

\* C11: in sequential and conditional mode a failure local to one step (every
\* attempt failing, a body that is not JSON, the log row not being persisted)
\* never raises out of IntegrationRunner.run
C11_StepFailureContained ==
    ~(/\ response.op = "run"
      /\ "raised" \in DOMAIN response
      /\ response.raised = DbError
      /\ response.mode \in {"sequential", "conditional"})

\* the last request was a call of run() that returned the result of a
\* parallel sequence
ParallelRunReturned ==
    /\ RunReturnedOk
    /\ response.sequence_id \in DOMAIN sequences
    /\ sequences[response.sequence_id].execution_mode = "parallel"

\* a step list entry that stands for a task that raised
RaisedEntry(entry) == DOMAIN entry = {"error"}

\* C12: in parallel mode run() returns only once every step task has run to
\* its end, and its step list has one entry per step of the sequence in step
\* order, a task that raised being an error entry
C12_GatherCollectsAll ==
    ParallelRunReturned =>
        \E order \in GetSteps(response.sequence_id) :
            /\ Len(response.steps) = Len(order)
            /\ \A k \in 1..Len(order) :
                  /\ response.calls[k] >= 1
                  /\ \/ RaisedEntry(response.steps[k])
                     \/ response.steps[k].step_id = order[k]

\* a parallel run of two steps returned with the entry of a task that raised
\* next to the result of a task that obtained a response
C12_Witness ==
    /\ ParallelRunReturned
    /\ Len(response.steps) = 2
    /\ \E j, k \in 1..2 :
          /\ RaisedEntry(response.steps[j])
          /\ "status_code" \in DOMAIN response.steps[k]

\* C13: in parallel mode each step task writes its log row through a session
\* of its own: the rows added to one session and not yet committed are never
\* those of two step tasks
C13_OwnSession ==
    (run.active /\ run.sequence.execution_mode = "parallel") =>
        \A r1, r2 \in BagToSet(session) : r1.integration_id = r2.integration_id

\* C14: whatever sequence requests were handled, a lender has at most one
\* sequence with is_active = true
C14_OneActiveSequence ==
    \A l \in lenders :
        Cardinality({sid \in DOMAIN sequences :
                        sequences[sid].lender_id = l /\ sequences[sid].is_active}) <= 1

\* the calls of the executor that have returned
DoneExecs == {e \in DOMAIN execs : execs[e].pc = "done"}

\* C15: execute_step and execute_integration called with an id that has no
\* deployed row, or whose row is not active, return success = false with an
\* error, issue no HTTP request and do not invoke IntegrationRunner.run
C15_RejectsMissingOrInactive ==
    \A e \in DOMAIN execs :
        (~execs[e].found \/ ~execs[e].active) =>
            /\ execs[e].pc = "done"
            /\ execs[e].result.success = FALSE
            /\ "error" \in DOMAIN execs[e].result
            /\ execs[e].sent = 0
            /\ ~execs[e].ran

\* a call of execute_step with an unknown id and a call of
\* execute_integration on an undeployed integration have both returned
C15_Witness ==
    \E e1, e2 \in DoneExecs :
        /\ execs[e1].kind = "step" /\ ~execs[e1].found
        /\ execs[e2].kind = "integration" /\ execs[e2].found /\ ~execs[e2].active

\* C16: a completed execute_step on an active deployed step adds 1 to
\* execution_count; when the HTTP call raised or answered a status >= 400 it
\* also adds 1 to error_count and sets last_error, otherwise error_count
\* stays as it was
C16_MetricsFollowOutcome ==
    \A e \in DoneExecs :
        (execs[e].kind = "step" /\ execs[e].active) =>
            /\ execs[e].after.execution_count = execs[e].before.execution_count + 1
            /\ IF execs[e].primary.value.success
               THEN execs[e].after.error_count = execs[e].before.error_count
               ELSE /\ execs[e].after.error_count = execs[e].before.error_count + 1
                    /\ execs[e].after.last_error # NoError

\* C18: the counter updates are atomic increments: execution_count of a
\* deployed row is the number of calls that found the row and have returned,
\* however the calls overlap
C18_NoLostUpdate ==
    /\ \A d \in DOMAIN deployed_apis :
          deployed_apis[d].execution_count =
            Cardinality({e \in DoneExecs : execs[e].kind = "step"
                                          /\ execs[e].id = d /\ execs[e].found})
    /\ \A d \in DOMAIN deployed_integrations :
          deployed_integrations[d].execution_count =
            Cardinality({e \in DoneExecs : execs[e].kind = "integration"
                                          /\ execs[e].id = d /\ execs[e].found})

\* two calls on the same active deployment ran at the same time and both
\* have returned, once for a step and once for an integration
C18_OverlapDone(kind) ==
    \E e1, e2 \in DoneExecs :
        /\ e1 # e2
        /\ execs[e1].kind = kind /\ execs[e2].kind = kind
        /\ execs[e1].id = execs[e2].id
        /\ execs[e1].active /\ execs[e2].active
        /\ execs[e2].overlaps

C18_Witness == C18_OverlapDone("step")

\* C19: execute_integration executes the steps of the sequence_config stored
\* in the deployed row: a call that succeeded returns one step entry per
\* step of that configuration
C19_RunsStoredConfig ==
    \A e \in DoneExecs :
        (execs[e].kind = "integration" /\ execs[e].result.success) =>
            Len(execs[e].result.result.steps) = Len(execs[e].seen.config.steps)

\* the primary execution of a call that has returned went through: the HTTP
\* call of a step answered a status below 400, the run of an integration
\* returned
PrimaryCompleted(exec) ==
    /\ "primary" \in DOMAIN exec
    /\ "value" \in DOMAIN exec.primary
    /\ exec.kind = "step" => exec.primary.value.success

\* C17: when the primary execution of a call of the executor has completed,
\* the call returns its result with success = true whether or not the
\* counter update failed
C17_MetricsFailureSwallowed ==
    \A e \in DoneExecs :
        PrimaryCompleted(execs[e]) =>
            /\ execs[e].result.success = TRUE
            /\ execs[e].result.result = execs[e].primary.value

\* C20: reading a path with _get_from_path after writing v at that path with
\* _set_to_path returns v, for every path string, root map and value
C20_GetAfterSet ==
    call.fn = "get" => call.result = call.value

\* C26: once a response has been received for a step of a run, no further
\* request is sent for that step in that run, also when the commit of the
\* step's log row fails after the response arrived: the requests a step has
\* sent are those up to the attempt that first obtained a response
C26_NoRequestAfterResponse ==
    run.active =>
        \A i \in DOMAIN run.tasks :
            run.tasks[i].answered # 0 => run.tasks[i].sent = run.tasks[i].answered

\* the counters of the rows of a deployment table obey 0 <= error_count <=
\* execution_count in the next state and are not below those of this state
CountersGrow(table, table_next) ==
    \A d \in DOMAIN table_next :
        /\ 0 <= table_next[d].error_count
        /\ table_next[d].error_count <= table_next[d].execution_count
        /\ d \in DOMAIN table =>
              /\ table_next[d].execution_count >= table[d].execution_count
              /\ table_next[d].error_count >= table[d].error_count

\* C27: for every deployed step and deployed integration, whatever calls of
\* the executor were made, 0 <= error_count <= execution_count and neither
\* counter ever decreases
C27_CountersMonotone ==
    [][/\ CountersGrow(deployed_apis, deployed_apis')
       /\ CountersGrow(deployed_integrations, deployed_integrations')]_vars

\* a deployed step was executed, undeployed and called again: two executions
\* counted, one of them as an error
C27_Witness ==
    \E d \in DOMAIN deployed_apis :
        /\ deployed_apis[d].execution_count = 2
        /\ deployed_apis[d].error_count = 1

\* C28: a call rejected because the status of the deployed row is not
\* "active" leaves execution_count, error_count and last_error of the row
\* unchanged
C28_RejectedLeavesCounters ==
    \A e \in DoneExecs :
        (execs[e].found /\ ~execs[e].active) => execs[e].after = execs[e].before

\* C30: a deployed step that delete_step_api has set to "inactive" stays
\* inactive, and every call of execute_step for it returns at once with
\* success = false and without an HTTP request
C30_UndeployedStaysRejected ==
    [][\A d \in DOMAIN deployed_apis :
          deployed_apis[d].status = "inactive" =>
            /\ deployed_apis'[d].status = "inactive"
            /\ (/\ Len(execs') = Len(execs) + 1
                /\ execs'[Len(execs')].kind = "step"
                /\ execs'[Len(execs')].id = d)
               => /\ execs'[Len(execs')].pc = "done"
                  /\ execs'[Len(execs')].result.success = FALSE
                  /\ execs'[Len(execs')].sent = 0]_vars

\* execute_step was called for a step after it had been executed once and
\* then undeployed
C30_Witness ==
    \E e1, e2 \in DoneExecs :
        /\ e1 < e2
        /\ execs[e1].kind = "step" /\ execs[e2].kind = "step"
        /\ execs[e1].id = execs[e2].id
        /\ execs[e1].active /\ ~execs[e2].active

\* C25: after update_integration_sequence or the deprecated save endpoint
\* went through with a step list that omits a stored step, the omitted step
\* is no longer among the steps _get_steps returns for the sequence: the
\* sequence has as many steps as the payload listed
C25_OmittedStepRemoved ==
    (response.op \in {"update", "save"} /\ response.status = 200) =>
        \A order \in GetSteps(response.sequence_id) : Len(order) = response.steps_sent

\* the first value of a list that is not null, null when there is none
FirstNonNull(values) ==
    LET nonnull == {i \in DOMAIN values : values[i] # Null}
    IN IF nonnull = {} THEN Null
       ELSE values[CHOOSE i \in nonnull : \A j \in nonnull : i <= j]

\* the value the n-th field mapping of a body construction is to write
Preferred(c, n) ==
    LET m == c.field_mappings[n]
    IN FirstNonNull(<<GetFromPath(c.input_payload, m.source_field),
                      m.default_value, m.fallback_value>>)

\* C21: each field mapping writes at target_field the source value when it is
\* not null, else the default when it is not null, else the fallback when it
\* is not null; when all three are null or target_field is empty the mapping
\* leaves the body as it was
C21_MappingPriority ==
    call.fn = "body" =>
        \A n \in 1..Len(call.field_mappings) :
            LET m == call.field_mappings[n]
                before == call.after_mappings[n]
                after == call.after_mappings[n + 1]
                parts == PathParts(m.target_field)
            IN IF Preferred(call, n) = Null \/ m.target_field = <<>>
               THEN after = before
               ELSE parts # <<>> => WalkPath(after, parts) = Preferred(call, n)

\* a mapping whose source and default are null wrote its fallback
C21_Witness ==
    /\ call.fn = "body"
    /\ \E n \in 1..Len(call.field_mappings) :
          /\ GetFromPath(call.input_payload, call.field_mappings[n].source_field) = Null
          /\ call.field_mappings[n].default_value = Null
          /\ call.field_mappings[n].fallback_value # Null
          /\ call.field_mappings[n].target_field = PathAB
          /\ call.after_mappings[n + 1] # call.after_mappings[n]
          /\ WalkPath(call.after_mappings[n + 1], PathParts(PathAB)) = Str("fallback")

\* the body of a construction before the template merge
Built(c) == c.after_mappings[Len(c.field_mappings) + 1].m

\* C22: every top-level key set by a dependency or a field mapping wins over
\* the template's (a dict value is laid over the template's dict, the set
\* sub-keys winning), the other template keys keep the template's value, and
\* a field mapping that writes the path of a dependency overrides it
C22_MappedValuesWinOverTemplate ==
    call.fn = "body" =>
        LET tpl == TemplateOf(call.step.request_schema)
            built == Built(call)
            final == call.request_body.m
            last == Len(call.field_mappings)
        IN /\ tpl.t # "obj" => final = built
           /\ tpl.t = "obj" =>
                /\ DOMAIN final = DOMAIN tpl.m \cup DOMAIN built
                /\ \A k \in DOMAIN tpl.m \ DOMAIN built : final[k] = tpl.m[k]
                /\ \A k \in DOMAIN built :
                      IF built[k].t # "obj" THEN final[k] = built[k]
                      ELSE /\ final[k].t = "obj"
                           /\ \A sub \in DOMAIN built[k].m : final[k].m[sub] = built[k].m[sub]
                           /\ \A sub \in DOMAIN final[k].m \ DOMAIN built[k].m :
                                 /\ k \in DOMAIN tpl.m
                                 /\ tpl.m[k].t = "obj"
                                 /\ sub \in DOMAIN tpl.m[k].m
                                 /\ final[k].m[sub] = tpl.m[k].m[sub]
                           /\ (k \in DOMAIN tpl.m /\ tpl.m[k].t = "obj") =>
                                 DOMAIN tpl.m[k].m \subseteq DOMAIN final[k].m
           /\ \A d \in DOMAIN call.step.depends_on_fields :
                 (/\ last >= 1
                  /\ call.field_mappings[last].target_field # <<>>
                  /\ PathParts(call.field_mappings[last].target_field)
                        = PathParts(call.step.depends_on_fields[d][1])
                  /\ Preferred(call, last) # Null)
                 => WalkPath(Obj(built), PathParts(call.step.depends_on_fields[d][1]))
                       = Preferred(call, last)

\* a dependency set key a to a dict, a field mapping then wrote a.b, and the
\* template's dict under a contributed its other sub-key
C22_Witness ==
    /\ call.fn = "body"
    /\ call.step.depends_on_fields # <<>>
    /\ call.previous_outputs = (PathRef :> Obj(<<"c">> :> V2))
    /\ Len(call.field_mappings) = 1
    /\ call.field_mappings[1].target_field = PathAB
    /\ Preferred(call, 1) = Str("default")
    /\ TemplateOf(call.step.request_schema)
          = Obj(<<"a">> :> Obj((<<"b">> :> Str("tpl")) @@ (<<"c">> :> Str("tpl"))))
    /\ call.request_body
          = Obj(<<"a">> :> Obj((<<"b">> :> Str("default")) @@ (<<"c">> :> V2)))

\* a field mapping overrode the value a dependency wrote at the same path
C22_OverrideWitness ==
    /\ call.fn = "body"
    /\ call.step.depends_on_fields # <<>>
    /\ call.previous_outputs = (PathRef :> V2)
    /\ Len(call.field_mappings) = 1
    /\ call.field_mappings[1].target_field = PathA
    /\ call.after_mappings[1] = Obj(<<"a">> :> V2)
    /\ call.after_mappings[2] = Obj(<<"a">> :> Str("fallback"))

\* the step a conditional execution is at
CurrentStep == call.steps[call.i]

\* the loop of _execute_conditional is about to look at a step whose
\* predicate is false
AtSkippedStep ==
    /\ call.fn = "conditional" /\ call.pc = "loop"
    /\ ~ShouldExecuteStep(CurrentStep, call.current_data, call.condition_config)

\* C24: under SequenceService._execute_conditional a step whose predicate is
\* false makes no API call, is appended to the results marked skipped and
\* leaves current_data as it was; current_data changes only when a step's API
\* call returned and the step succeeded
C24_SkippedStepHasNoEffect ==
    [][/\ AtSkippedStep =>
            /\ call'.api_calls = call.api_calls
            /\ call'.current_data = call.current_data
            /\ Len(call'.results) = Len(call.results) + 1
            /\ call'.results[Len(call'.results)].step_id = CurrentStep.id
            /\ "skipped" \in DOMAIN call'.results[Len(call'.results)]
            /\ call'.results[Len(call'.results)].skipped
       /\ (call.fn = "conditional" /\ call'.current_data # call.current_data) =>
            /\ call.pc = "api"
            /\ call.api_calls[Len(call.api_calls)] = CurrentStep.id
            /\ "success" \in DOMAIN call'.results[Len(call'.results)]
            /\ call'.results[Len(call'.results)].success
            /\ call'.results[Len(call'.results)].step_id = CurrentStep.id]_vars

\* a conditional execution that skipped a step after a step that ran, and
\* gained an output from the step that ran
C24_Witness ==
    /\ call.fn = "conditional" /\ call.pc = "done"
    /\ Len(call.results) = 2
    /\ "success" \in DOMAIN call.results[1] /\ call.results[1].success
    /\ "skipped" \in DOMAIN call.results[2]
    /\ call.api_calls = <<1>>
    /\ call.final_result = (PathA :> V1)

\* the request carries an Idempotency-Key
HasKey(request) == request.key # Null /\ request.key # Str("")

\* the request passed _check_api_key and _check_idempotency
Accepted(request) == request.pc # "rejected"

\* request i was accepted with the key of the later request j
AcceptedBefore(i, j) ==
    /\ i < j
    /\ requests[i].key = requests[j].key
    /\ Accepted(requests[i])

\* C23: after a request with Idempotency-Key k was accepted, every later
\* request with k that arrives before the key's TTL has expired is answered
\* 409 and starts no run; one that arrives after the expiry is accepted again;
\* a request without a key is never answered 409; runs are started by accepted
\* requests only
C23_DuplicateRejectedUntilExpiry ==
    /\ \A j \in DOMAIN requests :
          LET request == requests[j]
          IN /\ (HasKey(request) /\ request.authorised) =>
                   /\ (\E i \in DOMAIN requests :
                          /\ AcceptedBefore(i, j)
                          /\ request.at < requests[i].at + IdempotencyTtl)
                      => (request.status = 409 /\ ~request.ran)
                   /\ (\A i \in DOMAIN requests :
                          AcceptedBefore(i, j)
                             => request.at > requests[i].at + IdempotencyTtl)
                      => Accepted(request)
             /\ ~HasKey(request) => request.status # 409
             /\ request.ran => Accepted(request)
    /\ runCount = Cardinality({j \in DOMAIN requests : requests[j].ran})

\* a key was accepted, refused before its expiry and accepted again after it
C23_Witness ==
    /\ Len(requests) = 3
    /\ \A j \in 1..3 : requests[j].key = Str("k1") /\ requests[j].authorised
    /\ requests[1].status = 200
    /\ requests[2].status = 409 /\ requests[2].at < requests[1].at + IdempotencyTtl
    /\ requests[3].at > requests[1].at + IdempotencyTtl
    /\ requests[3].ran

\* C29: of two requests with the same Idempotency-Key that are handled at
\* the same time, whatever the interleaving of their handlers, at most one
\* passes _check_idempotency and starts a run, and the other is answered 409
C29_OneOfConcurrentPasses ==
    \A j \in DOMAIN requests : \A i \in requests[j].overlaps :
        (/\ HasKey(requests[j])
         /\ requests[j].authorised
         /\ requests[i].key = requests[j].key
         /\ requests[j].at < requests[i].at + IdempotencyTtl)
        => (requests[j].status = 409 /\ ~requests[j].ran)

\* a request arrived while the run of a request with the same key was in
\* progress, and was answered 409
C29_Witness ==
    \E j \in DOMAIN requests : \E i \in requests[j].overlaps :
        /\ requests[i].key = Str("k1") /\ requests[j].key = Str("k1")
        /\ requests[i].ran
        /\ requests[i].at = requests[j].at
        /\ requests[j].status = 409
        /\ requests[i].status = 200
====
